---------------------------- MODULE Spec2Model ----------------------------
(***************************************************************************)
(* Aggregated limit order book of src/main.cpp: the five storage           *)
(* strategies (OrderBookMap, OrderBookVector, OrderBookVectorEfficient,    *)
(* OrderBookVectorBranchless, OrderBookVectorLinear) driven in lock-step   *)
(* by one sequence of AddOrder / ModifyOrder / DeleteOrder calls.          *)
(***************************************************************************)
EXTENDS Integers, Sequences, FiniteSets, TLC

(* ------------------------------ bounds --------------------------------- *)
\* number of calls in one run
MaxOps == 4

\* the order ids, prices and signed volumes the calls of a run are drawn from
OrderIds == {1, 2, 3}
Sides == {"Bid", "Ask"}
Prices == {95, 100, 105}
Volumes == {-50, 50}
\* the volumes of a call tried in a reached state
CallVolumes == Volumes \cup {0}

\* number of calls in one run of SpecDeep, and what its calls are drawn from
MaxOpsDeep == 6
MaxOpsShort == 4
\* callers that pass zero volumes as well: MaxOpsSigned calls
MaxOpsSigned == 4
\* callers that pass strictly positive volumes only: MaxOpsPositive calls
MaxOpsPositive == 4
PositiveVolumes == {20, 50}
\* simulateMarket: MaxUpdates loop passes, samples of price_dist(10, 200) and
\* volume_dist(10, 100)
MaxUpdates == 4
MarketPrices == {10, 200}
MarketVolumes == {10, 100}
\* the inputs of a search: sequences of up to MaxSearchLen levels
MaxSearchLen == 5
SearchPrices == {95, 100, 105, 110}
SearchValues == SearchPrices \cup {90, 115}
DeepPrices == {100, 105}
DeepVolumes == {-50, 50}

(* --------------------------- small helpers ----------------------------- *)
Min(S) == CHOOSE x \in S : \A y \in S : x <= y
Max(S) == CHOOSE x \in S : \A y \in S : x >= y

\* unordered_map::erase(it)
EraseKey(f, k) == [x \in (DOMAIN f) \ {k} |-> f[x]]

\* vector::insert(it, x) with it the 1-based position, Len+1 for end()
InsertAt(s, i, x) == SubSeq(s, 1, i - 1) \o <<x>> \o SubSeq(s, i, Len(s))

\* vector::erase(it)
EraseAt(s, i) == SubSeq(s, 1, i - 1) \o SubSeq(s, i + 1, Len(s))

\* std::less<Price> / std::greater<Price> and the lambdas of Modify/Delete
Comp(c, p1, p2) == IF c = "greater" THEN p1 > p2 ELSE p1 < p2

LevelsField(side) == IF side = "Bid" THEN "mBidLevels" ELSE "mAskLevels"

\* std::lower_bound (binary search of the standard library); first is a 1-based position
RECURSIVE LowerBoundLoop(_, _, _, _, _)
LowerBoundLoop(levels, first, len, price, c) ==
    IF len > 0
    THEN LET half == len \div 2
             middle == first + half
         IN IF Comp(c, levels[middle].price, price)
            THEN LowerBoundLoop(levels, middle + 1, len - half - 1, price, c)
            ELSE LowerBoundLoop(levels, first, half, price, c)
    ELSE first

lower_bound(levels, price, c) == LowerBoundLoop(levels, 1, Len(levels), price, c)

\* variant: first advances by comp(mid, value) * half
RECURSIVE BranchlessLoop_AdvanceHalf(_, _, _, _, _)
BranchlessLoop_AdvanceHalf(levels, first, length, price, c) ==
    IF length > 0
    THEN LET half == length \div 2
             mid == first + half
             taken == IF Comp(c, levels[mid].price, price) THEN 1 ELSE 0
         IN BranchlessLoop_AdvanceHalf(levels, first + taken * half, half, price, c)
    ELSE first

\* branchless_lower_bound: first advances by comp(mid, value) * (length - half)
RECURSIVE BranchlessLoop(_, _, _, _, _)
BranchlessLoop(levels, first, length, price, c) ==
    IF length > 0
    THEN LET half == length \div 2
             mid == first + half
             taken == IF Comp(c, levels[mid].price, price) THEN 1 ELSE 0
         IN BranchlessLoop(levels, first + taken * (length - half), half, price, c)
    ELSE first

branchless_lower_bound(levels, price, c) ==
    BranchlessLoop(levels, 1, Len(levels), price, c)

\* std::find_if: first of the positions whose element satisfies the predicate
\* (hits), Len+1 for end()
FindIf(levels, hits) ==
    IF hits /= {} THEN Min(hits) ELSE Len(levels) + 1

EmptyVectorBook == [mBidLevels |-> <<>>, mAskLevels |-> <<>>, mOrders |-> <<>>]

(* ------------------------- OrderBookVector ----------------------------- *)
\* GetBestPrices of a strategy returns the pair <<bestBid, bestAsk>>

Vector_AddOrderImpl(ob, f, orderId, side, price, volume, c) ==
    LET levels == ob[f]
        it == lower_bound(levels, price, c)
        newLevels == IF it /= Len(levels) + 1 /\ levels[it].price = price
                     THEN [levels EXCEPT ![it].volume = @ + volume]
                     ELSE InsertAt(levels, it, [price |-> price, volume |-> volume])
    IN [ob EXCEPT ![f] = newLevels,
                  !.mOrders = orderId :> [side |-> side, price |-> price,
                                          originalVolume |-> volume] @@ @]

\* variant: an order that crosses the opposite side's best price takes that
\* level out of the book
Vector_AddOrder_Uncross(ob, orderId, side, price, volume) ==
    IF orderId \in DOMAIN ob.mOrders THEN ob
    ELSE LET added == IF side = "Bid"
                      THEN Vector_AddOrderImpl(ob, "mBidLevels", orderId, side, price,
                                               volume, "greater")
                      ELSE Vector_AddOrderImpl(ob, "mAskLevels", orderId, side, price,
                                               volume, "less")
             crossed == /\ added.mBidLevels /= <<>>
                        /\ added.mAskLevels /= <<>>
                        /\ added.mBidLevels[1].price >= added.mAskLevels[1].price
         IN IF ~crossed THEN added
            ELSE IF side = "Bid" THEN [added EXCEPT !.mAskLevels = Tail(@)]
            ELSE [added EXCEPT !.mBidLevels = Tail(@)]

Vector_AddOrder(ob, orderId, side, price, volume) ==
    IF orderId \in DOMAIN ob.mOrders THEN ob
    ELSE IF side = "Bid"
         THEN Vector_AddOrderImpl(ob, "mBidLevels", orderId, side, price, volume, "greater")
         ELSE Vector_AddOrderImpl(ob, "mAskLevels", orderId, side, price, volume, "less")

\* variant: mOrders[orderId] in place of find, which registers an unknown id
\* with a value-initialised OrderDetails (Side::Ask, price 0, volume 0)
Vector_ModifyOrder_DefaultInsert(ob, orderId, newVolume) ==
    LET reg == IF orderId \in DOMAIN ob.mOrders THEN ob.mOrders
               ELSE orderId :> [side |-> "Ask", price |-> 0, originalVolume |-> 0]
                    @@ ob.mOrders
        ob1 == [ob EXCEPT !.mOrders = reg]
        details == reg[orderId]
        volumeDiff == newVolume - details.originalVolume
        f == LevelsField(details.side)
        levels == ob1[f]
        c == IF details.side = "Bid" THEN "greater" ELSE "less"
        it == lower_bound(levels, details.price, c)
    IN IF it /= Len(levels) + 1 /\ levels[it].price = details.price
       THEN IF levels[it].volume + volumeDiff <= 0
            THEN [ob1 EXCEPT ![f] = EraseAt(levels, it),
                             !.mOrders = EraseKey(@, orderId)]
            ELSE [ob1 EXCEPT ![f][it].volume = @ + volumeDiff,
                             !.mOrders[orderId].originalVolume = newVolume]
       ELSE ob1

Vector_ModifyOrder(ob, orderId, newVolume) ==
    IF orderId \notin DOMAIN ob.mOrders THEN ob
    ELSE LET details == ob.mOrders[orderId]
             volumeDiff == newVolume - details.originalVolume
             f == LevelsField(details.side)
             levels == ob[f]
             c == IF details.side = "Bid" THEN "greater" ELSE "less"
             it == lower_bound(levels, details.price, c)
         IN IF it /= Len(levels) + 1 /\ levels[it].price = details.price
            THEN IF levels[it].volume + volumeDiff <= 0
                 THEN [ob EXCEPT ![f] = EraseAt(levels, it),
                                 !.mOrders = EraseKey(@, orderId)]
                 ELSE [ob EXCEPT ![f][it].volume = @ + volumeDiff,
                                 !.mOrders[orderId].originalVolume = newVolume]
            ELSE ob

Vector_DeleteOrder(ob, orderId) ==
    IF orderId \notin DOMAIN ob.mOrders THEN ob
    ELSE LET details == ob.mOrders[orderId]
             f == LevelsField(details.side)
             levels == ob[f]
             c == IF details.side = "Bid" THEN "greater" ELSE "less"
             it == lower_bound(levels, details.price, c)
             newLevels ==
                 IF it /= Len(levels) + 1 /\ levels[it].price = details.price
                 THEN IF levels[it].volume - details.originalVolume <= 0
                      THEN EraseAt(levels, it)
                      ELSE [levels EXCEPT ![it].volume = @ - details.originalVolume]
                 ELSE levels
         IN [ob EXCEPT ![f] = newLevels, !.mOrders = EraseKey(@, orderId)]

\* variant: each side reported on its own
Vector_GetBestPrices_PerSide(ob) ==
    <<IF ob.mBidLevels = <<>> THEN 0 ELSE ob.mBidLevels[1].price,
      IF ob.mAskLevels = <<>> THEN 0 ELSE ob.mAskLevels[1].price>>

Vector_GetBestPrices(ob) ==
    IF ob.mBidLevels = <<>> \/ ob.mAskLevels = <<>>
    THEN <<0, 0>>
    ELSE <<ob.mBidLevels[1].price, ob.mAskLevels[1].price>>

(* --------------------- OrderBookVectorEfficient ------------------------ *)
Efficient_AddOrderImpl(ob, f, orderId, side, price, volume, c) ==
    LET levels == ob[f]
        it == lower_bound(levels, price, c)
        newLevels == IF it /= Len(levels) + 1 /\ levels[it].price = price
                     THEN [levels EXCEPT ![it].volume = @ + volume]
                     ELSE InsertAt(levels, it, [price |-> price, volume |-> volume])
    IN [ob EXCEPT ![f] = newLevels,
                  !.mOrders = orderId :> [side |-> side, price |-> price,
                                          originalVolume |-> volume] @@ @]

\* variant: no test for an id that is already registered
Efficient_AddOrder_NoDupCheck(ob, orderId, side, price, volume) ==
    IF side = "Bid"
    THEN Efficient_AddOrderImpl(ob, "mBidLevels", orderId, side, price, volume, "less")
    ELSE Efficient_AddOrderImpl(ob, "mAskLevels", orderId, side, price, volume, "greater")

Efficient_AddOrder(ob, orderId, side, price, volume) ==
    IF orderId \in DOMAIN ob.mOrders THEN ob
    ELSE IF side = "Bid"
         THEN Efficient_AddOrderImpl(ob, "mBidLevels", orderId, side, price, volume, "less")
         ELSE Efficient_AddOrderImpl(ob, "mAskLevels", orderId, side, price, volume, "greater")

\* variant: it->volume = volumeDiff in place of it->volume += volumeDiff
Efficient_ModifyOrder_Assign(ob, orderId, newVolume) ==
    IF orderId \notin DOMAIN ob.mOrders THEN ob
    ELSE LET details == ob.mOrders[orderId]
             volumeDiff == newVolume - details.originalVolume
             f == LevelsField(details.side)
             levels == ob[f]
             c == IF details.side = "Bid" THEN "less" ELSE "greater"
             it == lower_bound(levels, details.price, c)
         IN IF it /= Len(levels) + 1 /\ levels[it].price = details.price
            THEN IF volumeDiff <= 0
                 THEN [ob EXCEPT ![f] = EraseAt(levels, it),
                                 !.mOrders = EraseKey(@, orderId)]
                 ELSE [ob EXCEPT ![f][it].volume = volumeDiff,
                                 !.mOrders[orderId].originalVolume = newVolume]
            ELSE ob

Efficient_ModifyOrder(ob, orderId, newVolume) ==
    IF orderId \notin DOMAIN ob.mOrders THEN ob
    ELSE LET details == ob.mOrders[orderId]
             volumeDiff == newVolume - details.originalVolume
             f == LevelsField(details.side)
             levels == ob[f]
             c == IF details.side = "Bid" THEN "less" ELSE "greater"
             it == lower_bound(levels, details.price, c)
         IN IF it /= Len(levels) + 1 /\ levels[it].price = details.price
            THEN IF levels[it].volume + volumeDiff <= 0
                 THEN [ob EXCEPT ![f] = EraseAt(levels, it),
                                 !.mOrders = EraseKey(@, orderId)]
                 ELSE [ob EXCEPT ![f][it].volume = @ + volumeDiff,
                                 !.mOrders[orderId].originalVolume = newVolume]
            ELSE ob

Efficient_DeleteOrder(ob, orderId) ==
    IF orderId \notin DOMAIN ob.mOrders THEN ob
    ELSE LET details == ob.mOrders[orderId]
             f == LevelsField(details.side)
             levels == ob[f]
             c == IF details.side = "Bid" THEN "less" ELSE "greater"
             it == lower_bound(levels, details.price, c)
             newLevels ==
                 IF it /= Len(levels) + 1 /\ levels[it].price = details.price
                 THEN IF levels[it].volume - details.originalVolume <= 0
                      THEN EraseAt(levels, it)
                      ELSE [levels EXCEPT ![it].volume = @ - details.originalVolume]
                 ELSE levels
         IN [ob EXCEPT ![f] = newLevels, !.mOrders = EraseKey(@, orderId)]

Efficient_GetBestPrices(ob) ==
    IF ob.mBidLevels = <<>> \/ ob.mAskLevels = <<>>
    THEN <<0, 0>>
    ELSE <<ob.mBidLevels[Len(ob.mBidLevels)].price,
           ob.mAskLevels[Len(ob.mAskLevels)].price>>

(* --------------------- OrderBookVectorBranchless ----------------------- *)
\* variant: an existing level takes the new order's volume in place of the sum
Branchless_AddOrderImpl_Overwrite(ob, f, orderId, side, price, volume, c) ==
    LET levels == ob[f]
        it == branchless_lower_bound(levels, price, c)
        newLevels == IF it /= Len(levels) + 1 /\ levels[it].price = price
                     THEN [levels EXCEPT ![it].volume = volume]
                     ELSE InsertAt(levels, it, [price |-> price, volume |-> volume])
    IN [ob EXCEPT ![f] = newLevels,
                  !.mOrders = orderId :> [side |-> side, price |-> price,
                                          originalVolume |-> volume] @@ @]

Branchless_AddOrderImpl(ob, f, orderId, side, price, volume, c) ==
    LET levels == ob[f]
        it == branchless_lower_bound(levels, price, c)
        newLevels == IF it /= Len(levels) + 1 /\ levels[it].price = price
                     THEN [levels EXCEPT ![it].volume = @ + volume]
                     ELSE InsertAt(levels, it, [price |-> price, volume |-> volume])
    IN [ob EXCEPT ![f] = newLevels,
                  !.mOrders = orderId :> [side |-> side, price |-> price,
                                          originalVolume |-> volume] @@ @]

Branchless_AddOrder(ob, orderId, side, price, volume) ==
    IF orderId \in DOMAIN ob.mOrders THEN ob
    ELSE IF side = "Bid"
         THEN Branchless_AddOrderImpl(ob, "mBidLevels", orderId, side, price, volume, "less")
         ELSE Branchless_AddOrderImpl(ob, "mAskLevels", orderId, side, price, volume, "greater")

\* variant: the level is removed at a result < 0, a level of 0 stays
Branchless_ModifyOrder_StrictTest(ob, orderId, newVolume) ==
    IF orderId \notin DOMAIN ob.mOrders THEN ob
    ELSE LET details == ob.mOrders[orderId]
             volumeDiff == newVolume - details.originalVolume
             f == LevelsField(details.side)
             levels == ob[f]
             c == IF details.side = "Bid" THEN "less" ELSE "greater"
             it == branchless_lower_bound(levels, details.price, c)
         IN IF it /= Len(levels) + 1 /\ levels[it].price = details.price
            THEN IF levels[it].volume + volumeDiff < 0
                 THEN [ob EXCEPT ![f] = EraseAt(levels, it),
                                 !.mOrders = EraseKey(@, orderId)]
                 ELSE [ob EXCEPT ![f][it].volume = @ + volumeDiff,
                                 !.mOrders[orderId].originalVolume = newVolume]
            ELSE ob

Branchless_ModifyOrder(ob, orderId, newVolume) ==
    IF orderId \notin DOMAIN ob.mOrders THEN ob
    ELSE LET details == ob.mOrders[orderId]
             volumeDiff == newVolume - details.originalVolume
             f == LevelsField(details.side)
             levels == ob[f]
             c == IF details.side = "Bid" THEN "less" ELSE "greater"
             it == branchless_lower_bound(levels, details.price, c)
         IN IF it /= Len(levels) + 1 /\ levels[it].price = details.price
            THEN IF levels[it].volume + volumeDiff <= 0
                 THEN [ob EXCEPT ![f] = EraseAt(levels, it),
                                 !.mOrders = EraseKey(@, orderId)]
                 ELSE [ob EXCEPT ![f][it].volume = @ + volumeDiff,
                                 !.mOrders[orderId].originalVolume = newVolume]
            ELSE ob

Branchless_DeleteOrder(ob, orderId) ==
    IF orderId \notin DOMAIN ob.mOrders THEN ob
    ELSE LET details == ob.mOrders[orderId]
             f == LevelsField(details.side)
             levels == ob[f]
             c == IF details.side = "Bid" THEN "less" ELSE "greater"
             it == branchless_lower_bound(levels, details.price, c)
             newLevels ==
                 IF it /= Len(levels) + 1 /\ levels[it].price = details.price
                 THEN IF levels[it].volume - details.originalVolume <= 0
                      THEN EraseAt(levels, it)
                      ELSE [levels EXCEPT ![it].volume = @ - details.originalVolume]
                 ELSE levels
         IN [ob EXCEPT ![f] = newLevels, !.mOrders = EraseKey(@, orderId)]

Branchless_GetBestPrices(ob) ==
    IF ob.mBidLevels = <<>> \/ ob.mAskLevels = <<>>
    THEN <<0, 0>>
    ELSE <<ob.mBidLevels[Len(ob.mBidLevels)].price,
           ob.mAskLevels[Len(ob.mAskLevels)].price>>

(* ----------------------- OrderBookVectorLinear ------------------------- *)
\* variant: a new level is appended at the end (push_back) instead of inserted
\* at the position found
Linear_AddOrderImpl_PushBack(ob, f, orderId, side, price, volume, c) ==
    LET levels == ob[f]
        it == FindIf(levels, {i \in 1..Len(levels) : ~Comp(c, levels[i].price, price)})
        newLevels == IF it /= Len(levels) + 1 /\ levels[it].price = price
                     THEN [levels EXCEPT ![it].volume = @ + volume]
                     ELSE Append(levels, [price |-> price, volume |-> volume])
    IN [ob EXCEPT ![f] = newLevels,
                  !.mOrders = orderId :> [side |-> side, price |-> price,
                                          originalVolume |-> volume] @@ @]

Linear_AddOrderImpl(ob, f, orderId, side, price, volume, c) ==
    LET levels == ob[f]
        it == FindIf(levels, {i \in 1..Len(levels) : ~Comp(c, levels[i].price, price)})
        newLevels == IF it /= Len(levels) + 1 /\ levels[it].price = price
                     THEN [levels EXCEPT ![it].volume = @ + volume]
                     ELSE InsertAt(levels, it, [price |-> price, volume |-> volume])
    IN [ob EXCEPT ![f] = newLevels,
                  !.mOrders = orderId :> [side |-> side, price |-> price,
                                          originalVolume |-> volume] @@ @]

Linear_AddOrder(ob, orderId, side, price, volume) ==
    IF orderId \in DOMAIN ob.mOrders THEN ob
    ELSE IF side = "Bid"
         THEN Linear_AddOrderImpl(ob, "mBidLevels", orderId, side, price, volume, "less")
         ELSE Linear_AddOrderImpl(ob, "mAskLevels", orderId, side, price, volume, "greater")

Linear_ModifyOrder(ob, orderId, newVolume) ==
    IF orderId \notin DOMAIN ob.mOrders THEN ob
    ELSE LET details == ob.mOrders[orderId]
             volumeDiff == newVolume - details.originalVolume
             f == LevelsField(details.side)
             levels == ob[f]
             it == FindIf(levels, {i \in 1..Len(levels) : levels[i].price = details.price})
         IN IF it /= Len(levels) + 1
            THEN IF levels[it].volume + volumeDiff <= 0
                 THEN [ob EXCEPT ![f] = EraseAt(levels, it),
                                 !.mOrders = EraseKey(@, orderId)]
                 ELSE [ob EXCEPT ![f][it].volume = @ + volumeDiff,
                                 !.mOrders[orderId].originalVolume = newVolume]
            ELSE ob

Linear_DeleteOrder(ob, orderId) ==
    IF orderId \notin DOMAIN ob.mOrders THEN ob
    ELSE LET details == ob.mOrders[orderId]
             f == LevelsField(details.side)
             levels == ob[f]
             it == FindIf(levels, {i \in 1..Len(levels) : levels[i].price = details.price})
             newLevels ==
                 IF it /= Len(levels) + 1
                 THEN IF levels[it].volume - details.originalVolume <= 0
                      THEN EraseAt(levels, it)
                      ELSE [levels EXCEPT ![it].volume = @ - details.originalVolume]
                 ELSE levels
         IN [ob EXCEPT ![f] = newLevels, !.mOrders = EraseKey(@, orderId)]

\* variant: front() read where the levels are stored best-last
Linear_GetBestPrices_Front(ob) ==
    IF ob.mBidLevels = <<>> \/ ob.mAskLevels = <<>>
    THEN <<0, 0>>
    ELSE <<ob.mBidLevels[1].price, ob.mAskLevels[1].price>>

Linear_GetBestPrices(ob) ==
    IF ob.mBidLevels = <<>> \/ ob.mAskLevels = <<>>
    THEN <<0, 0>>
    ELSE <<ob.mBidLevels[Len(ob.mBidLevels)].price,
           ob.mAskLevels[Len(ob.mAskLevels)].price>>

(* --------------------------- OrderBookMap ------------------------------ *)
\* A std::map is the set of addresses of its nodes; node memory (key and mapped
\* volume) lives in heap, which keeps a node's last contents after the node is
\* freed.  A map iterator is the address of a node.  dangling holds the live
\* orders whose cached iterator's node has been erased (the iterator is
\* invalid from then on); ub records that such an iterator was dereferenced;
\* crashed records that the process was terminated by a corrupted erase.
NumAddr == 2 * Cardinality(Prices) + Cardinality(OrderIds)
Addr == 1..NumAddr
\* the iterator member of OrderDetails that AddOrder leaves unset
NoIt == 0
BlankNode == [price |-> 0, volume |-> 0]

EmptyMapBook ==
    [mBidLevels |-> {}, mAskLevels |-> {}, mOrders |-> <<>>,
     heap |-> [a \in Addr |-> BlankNode],
     dangling |-> {}, ub |-> FALSE, crashed |-> FALSE]

\* details.bidIt or details.askIt, whichever the side selects
CachedIt(details) == IF details.side = "Bid" THEN details.bidIt ELSE details.askIt

FreeAddr(st) == Addr \ (st.mBidLevels \cup st.mAskLevels)

\* iterators held by live orders that point at freed memory
DanglingTargets(st) ==
    {CachedIt(st.mOrders[o]) : o \in st.dangling} \cap FreeAddr(st)

\* operator new for a map node: the allocator may hand out again a block that a
\* stale iterator still points at, or a block nothing refers to (all of those
\* are alike, the lowest stands for them)
AllocChoices(st) ==
    DanglingTargets(st) \cup {Min(FreeAddr(st) \ DanglingTargets(st))}

\* freed memory that no iterator refers to cannot be observed again
Scrub(st) ==
    LET kept == st.mBidLevels \cup st.mAskLevels
                \cup {CachedIt(st.mOrders[o]) : o \in DOMAIN st.mOrders}
    IN [st EXCEPT !.heap = [a \in Addr |-> IF a \in kept THEN @[a] ELSE BlankNode]]

\* map::try_emplace(price, volume): the set of <<state, it, inserted>>
Map_TryEmplace(st, f, price, volume) ==
    LET found == {a \in st[f] : st.heap[a].price = price}
    IN IF found /= {}
       THEN {<<st, CHOOSE a \in found : TRUE, FALSE>>}
       ELSE {<<[st EXCEPT ![f] = @ \cup {a},
                          !.heap[a] = [price |-> price, volume |-> volume]],
               a, TRUE>> : a \in AllocChoices(st)}

\* the outcomes of the test it->second <= 0: a freed node's memory is
\* indeterminate
Map_NonPositive(st, it) ==
    IF it \in FreeAddr(st) THEN BOOLEAN ELSE {st.heap[it].volume <= 0}

\* every other order caching the erased node now holds an invalid iterator
Invalidate(st, f, it) ==
    [st EXCEPT !.dangling = @ \cup {o \in DOMAIN st.mOrders :
                                      /\ st.mOrders[o].side = (IF f = "mBidLevels" THEN "Bid" ELSE "Ask")
                                      /\ CachedIt(st.mOrders[o]) = it}]

\* mXLevels.erase(it): the outcomes.  A node of this map is unlinked and freed.
\* An iterator to a node of the other map, or to freed memory, corrupts the
\* tree or frees twice: the process dies, or goes on with nothing visibly
\* changed, or (node of the other map) with that node unlinked from its own map.
Map_EraseLevel(st, f, it) ==
    LET other == IF f = "mBidLevels" THEN "mAskLevels" ELSE "mBidLevels"
    IN IF it \in st[f]
       THEN {Invalidate([st EXCEPT ![f] = @ \ {it}], f, it)}
       ELSE {[st EXCEPT !.crashed = TRUE], st}
            \cup (IF it \in st[other]
                  THEN {Invalidate([st EXCEPT ![other] = @ \ {it}], other, it)}
                  ELSE {})

\* mOrders.erase(order_it)
Map_EraseOrder(st, orderId) ==
    [st EXCEPT !.mOrders = EraseKey(@, orderId), !.dangling = @ \ {orderId}]

Map_AddOrder(st, orderId, side, price, volume) ==
    IF st.crashed \/ orderId \in DOMAIN st.mOrders THEN {st}
    ELSE {LET s1 == r[1]
              it == r[2]
              s2 == IF r[3] THEN s1 ELSE [s1 EXCEPT !.heap[it].volume = @ + volume]
              details == [side |-> side, price |-> price, originalVolume |-> volume,
                          bidIt |-> IF side = "Bid" THEN it ELSE NoIt,
                          askIt |-> IF side = "Bid" THEN NoIt ELSE it]
          IN [s2 EXCEPT !.mOrders = orderId :> details @@ @]
          : r \in Map_TryEmplace(st, LevelsField(side), price, volume)}

Map_ModifyOrder(st, orderId, newVolume) ==
    IF st.crashed \/ orderId \notin DOMAIN st.mOrders THEN {st}
    ELSE LET details == st.mOrders[orderId]
             volumeDiff == newVolume - details.originalVolume
             f == LevelsField(details.side)
             it == CachedIt(details)
             s1 == [st EXCEPT !.heap[it].volume = @ + volumeDiff,
                              !.ub = @ \/ orderId \in st.dangling]
         IN UNION {IF nonPositive
                   THEN {IF s2.crashed THEN s2 ELSE Scrub(Map_EraseOrder(s2, orderId))
                         : s2 \in Map_EraseLevel(s1, f, it)}
                   ELSE {[s1 EXCEPT !.mOrders[orderId].originalVolume = newVolume]}
                   : nonPositive \in Map_NonPositive(s1, it)}

Map_DeleteOrder(st, orderId) ==
    IF st.crashed \/ orderId \notin DOMAIN st.mOrders THEN {st}
    ELSE LET details == st.mOrders[orderId]
             f == LevelsField(details.side)
             it == CachedIt(details)
             s1 == [st EXCEPT !.heap[it].volume = @ - details.originalVolume,
                              !.ub = @ \/ orderId \in st.dangling]
         IN UNION {{IF s2.crashed THEN s2 ELSE Scrub(Map_EraseOrder(s2, orderId))
                    : s2 \in (IF nonPositive THEN Map_EraseLevel(s1, f, it) ELSE {s1})}
                   : nonPositive \in Map_NonPositive(s1, it)}

\* variant: each side reported on its own
Map_GetBestPrices_PerSide(st) ==
    <<IF st.mBidLevels = {} THEN 0 ELSE Max({st.heap[a].price : a \in st.mBidLevels}),
      IF st.mAskLevels = {} THEN 0 ELSE Min({st.heap[a].price : a \in st.mAskLevels})>>

\* begin() of a map ordered by std::greater is the highest key, by std::less
\* the lowest
Map_GetBestPrices(st) ==
    IF st.mBidLevels = {} \/ st.mAskLevels = {}
    THEN <<0, 0>>
    ELSE <<Max({st.heap[a].price : a \in st.mBidLevels}),
           Min({st.heap[a].price : a \in st.mAskLevels})>>

(* --------------------------- state machine ----------------------------- *)
VARIABLES obMap, obVector, obEfficient, obBranchless, obLinear, nOps, search, sim

vars == <<obMap, obVector, obEfficient, obBranchless, obLinear, nOps, search, sim>>
books == <<obMap, obVector, obEfficient, obBranchless, obLinear>>

\* no call of branchless_lower_bound under way
NoSearch ==
    [levels |-> <<>>, value |-> 0, c |-> "less", first |-> 1, length |-> 0, pc |-> "none"]

\* the locals of simulateMarket before its loop
NoMarket == [activeOrders |-> <<>>, next_id |-> 1]

InitBooks ==
    /\ obMap = EmptyMapBook
    /\ obVector = EmptyVectorBook
    /\ obEfficient = EmptyVectorBook
    /\ obBranchless = EmptyVectorBook
    /\ obLinear = EmptyVectorBook
    /\ nOps = 0

Init == InitBooks /\ search = NoSearch /\ sim = NoMarket

AddOrder(orderId, side, price, volume) ==
    /\ obMap' \in Map_AddOrder(obMap, orderId, side, price, volume)
    /\ obVector' = Vector_AddOrder(obVector, orderId, side, price, volume)
    /\ obEfficient' = Efficient_AddOrder(obEfficient, orderId, side, price, volume)
    /\ obBranchless' = Branchless_AddOrder(obBranchless, orderId, side, price, volume)
    /\ obLinear' = Linear_AddOrder(obLinear, orderId, side, price, volume)
    /\ nOps' = nOps + 1

ModifyOrder(orderId, newVolume) ==
    /\ obMap' \in Map_ModifyOrder(obMap, orderId, newVolume)
    /\ obVector' = Vector_ModifyOrder(obVector, orderId, newVolume)
    /\ obEfficient' = Efficient_ModifyOrder(obEfficient, orderId, newVolume)
    /\ obBranchless' = Branchless_ModifyOrder(obBranchless, orderId, newVolume)
    /\ obLinear' = Linear_ModifyOrder(obLinear, orderId, newVolume)
    /\ nOps' = nOps + 1

DeleteOrder(orderId) ==
    /\ obMap' \in Map_DeleteOrder(obMap, orderId)
    /\ obVector' = Vector_DeleteOrder(obVector, orderId)
    /\ obEfficient' = Efficient_DeleteOrder(obEfficient, orderId)
    /\ obBranchless' = Branchless_DeleteOrder(obBranchless, orderId)
    /\ obLinear' = Linear_DeleteOrder(obLinear, orderId)
    /\ nOps' = nOps + 1

\* any caller: every id, side, price and signed volume, MaxOps calls
Add ==
    \E orderId \in OrderIds, side \in Sides, price \in Prices, volume \in Volumes :
        nOps < MaxOps /\ AddOrder(orderId, side, price, volume) /\ UNCHANGED <<search, sim>>

Modify ==
    \E orderId \in OrderIds, newVolume \in Volumes :
        nOps < MaxOps /\ ModifyOrder(orderId, newVolume) /\ UNCHANGED <<search, sim>>

Delete ==
    \E orderId \in OrderIds :
        nOps < MaxOps /\ DeleteOrder(orderId) /\ UNCHANGED <<search, sim>>

Next == Add \/ Modify \/ Delete

Spec == Init /\ [][Next]_vars

\* longer runs over fewer prices and volumes
AddDeep ==
    \E orderId \in OrderIds, side \in Sides, price \in DeepPrices, volume \in DeepVolumes :
        nOps < MaxOpsDeep /\ AddOrder(orderId, side, price, volume) /\ UNCHANGED <<search, sim>>

ModifyDeep ==
    \E orderId \in OrderIds, newVolume \in DeepVolumes :
        nOps < MaxOpsDeep /\ ModifyOrder(orderId, newVolume) /\ UNCHANGED <<search, sim>>

DeleteDeep ==
    \E orderId \in OrderIds :
        nOps < MaxOpsDeep /\ DeleteOrder(orderId) /\ UNCHANGED <<search, sim>>

NextDeep == AddDeep \/ ModifyDeep \/ DeleteDeep

SpecDeep == Init /\ [][NextDeep]_vars

\* short runs over fewer prices
AddShort ==
    \E orderId \in OrderIds, side \in Sides, price \in DeepPrices, volume \in Volumes :
        nOps < MaxOpsShort /\ AddOrder(orderId, side, price, volume) /\ UNCHANGED <<search, sim>>

ModifyShort ==
    \E orderId \in OrderIds, newVolume \in Volumes :
        nOps < MaxOpsShort /\ ModifyOrder(orderId, newVolume) /\ UNCHANGED <<search, sim>>

DeleteShort ==
    \E orderId \in OrderIds :
        nOps < MaxOpsShort /\ DeleteOrder(orderId) /\ UNCHANGED <<search, sim>>

NextShort == AddShort \/ ModifyShort \/ DeleteShort

SpecShort == Init /\ [][NextShort]_vars

\* any caller, zero volumes included
AddSigned ==
    \E orderId \in OrderIds, side \in Sides, price \in DeepPrices, volume \in CallVolumes :
        /\ nOps < MaxOpsSigned
        /\ AddOrder(orderId, side, price, volume)
        /\ UNCHANGED <<search, sim>>

ModifySigned ==
    \E orderId \in OrderIds, newVolume \in CallVolumes :
        /\ nOps < MaxOpsSigned
        /\ ModifyOrder(orderId, newVolume)
        /\ UNCHANGED <<search, sim>>

DeleteSigned ==
    \E orderId \in OrderIds :
        nOps < MaxOpsSigned /\ DeleteOrder(orderId) /\ UNCHANGED <<search, sim>>

NextSigned == AddSigned \/ ModifySigned \/ DeleteSigned

SpecSigned == Init /\ [][NextSigned]_vars

\* any caller whose volumes are all strictly positive
AddPositive ==
    \E orderId \in OrderIds, side \in Sides, price \in Prices,
       volume \in PositiveVolumes :
        /\ nOps < MaxOpsPositive
        /\ AddOrder(orderId, side, price, volume)
        /\ UNCHANGED <<search, sim>>

ModifyPositive ==
    \E orderId \in OrderIds, newVolume \in PositiveVolumes :
        /\ nOps < MaxOpsPositive
        /\ ModifyOrder(orderId, newVolume)
        /\ UNCHANGED <<search, sim>>

DeletePositive ==
    \E orderId \in OrderIds :
        nOps < MaxOpsPositive /\ DeleteOrder(orderId) /\ UNCHANGED <<search, sim>>

NextPositive == AddPositive \/ ModifyPositive \/ DeletePositive

SpecPositive == Init /\ [][NextPositive]_vars

(* --------------------------- simulateMarket ---------------------------- *)
\* variant: id = next_id without the increment
simulateMarket_Add_NoIncrement(s) ==
    [s EXCEPT !.activeOrders = Append(@, s.next_id)]

\* id = next_id++ and activeOrders.push_back(id)
simulateMarket_Add(s) ==
    [activeOrders |-> Append(s.activeOrders, s.next_id), next_id |-> s.next_id + 1]

\* activeOrders.erase(activeOrders.begin() + idx), idx counted from 1
simulateMarket_Erase(s, idx) ==
    [s EXCEPT !.activeOrders = EraseAt(@, idx)]

\* op == 0 or activeOrders empty (op is drawn at random, so the branch can
\* always be taken); side, price and volume are drawn at random
MarketAdd ==
    \E side \in Sides, price \in MarketPrices, volume \in MarketVolumes :
        /\ nOps < MaxUpdates
        /\ AddOrder(sim.next_id, side, price, volume)
        /\ sim' = simulateMarket_Add(sim)
        /\ UNCHANGED search

\* op == 1 and activeOrders not empty
MarketModify ==
    \E idx \in 1..Len(sim.activeOrders), volume \in MarketVolumes :
        /\ nOps < MaxUpdates
        /\ ModifyOrder(sim.activeOrders[idx], volume)
        /\ UNCHANGED <<search, sim>>

\* op == 2 and activeOrders not empty
MarketDelete ==
    \E idx \in 1..Len(sim.activeOrders) :
        /\ nOps < MaxUpdates
        /\ DeleteOrder(sim.activeOrders[idx])
        /\ sim' = simulateMarket_Erase(sim, idx)
        /\ UNCHANGED search

NextMarket == MarketAdd \/ MarketModify \/ MarketDelete

SpecMarket == Init /\ [][NextMarket]_vars

(* ------------------- one call of branchless_lower_bound ---------------- *)
\* the sequences a search may be given: sorted with respect to the comparator
\* (no element is ordered before an earlier one), equal prices allowed
SortedLevels(c) ==
    {s \in UNION {[1..n -> {[price |-> p, volume |-> 10] : p \in SearchPrices}]
                     : n \in 0..MaxSearchLen} :
        \A i, j \in 1..Len(s) : i < j => ~Comp(c, s[j].price, s[i].price)}

\* entry: length = std::distance(first, last)
InitSearch ==
    /\ InitBooks
    /\ sim = NoMarket
    /\ \E c \in {"less", "greater"} : \E levels \in SortedLevels(c), value \in SearchValues :
           search = [levels |-> levels, value |-> value, c |-> c,
                     first |-> 1, length |-> Len(levels), pc |-> "loop"]

\* variant: length = length - half in place of length = half; a read at or
\* past the end position yields no comparison result
BranchlessPass_KeepRest(s) ==
    LET half == s.length \div 2
        mid == s.first + half
        taken == IF mid \in DOMAIN s.levels /\ Comp(s.c, s.levels[mid].price, s.value)
                 THEN 1 ELSE 0
    IN [s EXCEPT !.first = @ + taken * (s.length - half), !.length = s.length - half]

\* the body of the while loop: half, mid, first += comp(mid, value) * (length - half),
\* length = half
BranchlessPass(s) ==
    LET half == s.length \div 2
        mid == s.first + half
        taken == IF Comp(s.c, s.levels[mid].price, s.value) THEN 1 ELSE 0
    IN [s EXCEPT !.first = @ + taken * (s.length - half), !.length = half]

\* one pass of the while loop
BranchlessStep ==
    /\ search.pc = "loop"
    /\ search.length > 0
    /\ search' = BranchlessPass(search)
    /\ UNCHANGED <<books, nOps, sim>>

\* return first
BranchlessReturn ==
    /\ search.pc = "loop"
    /\ ~(search.length > 0)
    /\ search' = [search EXCEPT !.pc = "returned"]
    /\ UNCHANGED <<books, nOps, sim>>

NextSearch == BranchlessStep \/ BranchlessReturn

SpecSearch == InitSearch /\ [][NextSearch]_vars

\* the call keeps running until it returns
FairSpecSearch == SpecSearch /\ WF_vars(NextSearch)

(* ------------------------- views of a book ----------------------------- *)
RECURSIVE SumOver(_, _)
SumOver(f, S) ==
    IF S = {} THEN 0
    ELSE LET x == CHOOSE y \in S : TRUE IN f[x] + SumOver(f, S \ {x})

\* sum of the registry's remaining volume over the live orders at (price, side)
LiveSum(mOrders, side, price) ==
    LET at == {o \in DOMAIN mOrders :
                  mOrders[o].side = side /\ mOrders[o].price = price}
    IN SumOver([o \in at |-> mOrders[o].originalVolume], at)

\* the levels of one side as a set of <<price, volume>> (one element per stored entry
\* as long as no price is stored twice with the same volume)
VecLevelSet(ob, side) ==
    LET levels == ob[LevelsField(side)]
    IN {<<levels[i].price, levels[i].volume>> : i \in 1..Len(levels)}

MapLevelSet(st, side) ==
    {<<st.heap[a].price, st.heap[a].volume>> : a \in st[LevelsField(side)]}

\* number of stored entries of one side at a price
VecLevelCount(ob, side, price) ==
    Cardinality({i \in 1..Len(ob[LevelsField(side)]) :
                    ob[LevelsField(side)][i].price = price})

MapLevelCount(st, side, price) ==
    Cardinality({a \in st[LevelsField(side)] : st.heap[a].price = price})

VectorBooks == <<obVector, obEfficient, obBranchless, obLinear>>

\* aggregate invariant of one book given as registry and level sets
VolumesMatch(mOrders, levelSet, side) ==
    \A price \in Prices :
        /\ \A l \in levelSet : l[1] = price => l[2] = LiveSum(mOrders, side, price)
        /\ (\A l \in levelSet : l[1] /= price) => LiveSum(mOrders, side, price) = 0

\* the five strategies by number: 1 OrderBookMap, 2 OrderBookVector,
\* 3 OrderBookVectorEfficient, 4 OrderBookVectorBranchless, 5 OrderBookVectorLinear
Strategies == 1..5

\* a strategy whose process is still running
Running(k) == k /= 1 \/ ~obMap.crashed

Registry(k) == IF k = 1 THEN obMap.mOrders ELSE VectorBooks[k - 1].mOrders

LevelSet(k, side) ==
    IF k = 1 THEN MapLevelSet(obMap, side) ELSE VecLevelSet(VectorBooks[k - 1], side)

SideEmpty(k, side) ==
    IF k = 1 THEN obMap[LevelsField(side)] = {}
    ELSE VectorBooks[k - 1][LevelsField(side)] = <<>>

BestPrices ==
    <<Map_GetBestPrices(obMap), Vector_GetBestPrices(obVector),
      Efficient_GetBestPrices(obEfficient), Branchless_GetBestPrices(obBranchless),
      Linear_GetBestPrices(obLinear)>>

PricesOf(levelSet) == {l[1] : l \in levelSet}

(* ------------------------------ claims --------------------------------- *)

\* C1: in every strategy the volume stored in each price level equals the sum of
\* the remaining volume of the live orders at that price and side, and a
\* (price, side) without a level has live-order sum 0.
C1_LevelVolumeIsLiveSum ==
    \A side \in Sides :
        /\ ~obMap.crashed => VolumesMatch(obMap.mOrders, MapLevelSet(obMap, side), side)
        /\ \A k \in 1..4 :
               VolumesMatch(VectorBooks[k].mOrders, VecLevelSet(VectorBooks[k], side), side)

\* C2: every live order has exactly one level at its price on its side, in every
\* strategy, and in OrderBookMap the iterator cached for a live order refers to
\* a node that is still in the map.
C2_LiveOrderHasItsLevel ==
    /\ \A k \in 1..4 : \A o \in DOMAIN VectorBooks[k].mOrders :
           VecLevelCount(VectorBooks[k], VectorBooks[k].mOrders[o].side,
                         VectorBooks[k].mOrders[o].price) = 1
    /\ ~obMap.crashed =>
           /\ obMap.dangling = {}
           /\ \A o \in DOMAIN obMap.mOrders :
                  /\ MapLevelCount(obMap, obMap.mOrders[o].side, obMap.mOrders[o].price) = 1
                  /\ CachedIt(obMap.mOrders[o]) \in obMap[LevelsField(obMap.mOrders[o].side)]
                  /\ obMap.heap[CachedIt(obMap.mOrders[o])].price = obMap.mOrders[o].price

\* C4: no price level on either side has stored volume <= 0 after any operation.
C4_NoNonPositiveLevel ==
    \A side \in Sides :
        /\ ~obMap.crashed => \A l \in MapLevelSet(obMap, side) : l[2] > 0
        /\ \A k \in 1..4 : \A l \in VecLevelSet(VectorBooks[k], side) : l[2] > 0

\* C3: after every step of one operation sequence applied to all strategies,
\* GetBestPrices returns the same pair from every strategy.
C3_SameBestPrices ==
    /\ \A k \in 2..5 : BestPrices[k] = BestPrices[2]
    /\ ~obMap.crashed => BestPrices[1] = BestPrices[2]

\* C5 as stated: the bid component is 0 only if the bid side has no level and
\* the ask component is 0 only if the ask side has no level.
C5_EachSideIndependent ==
    \A k \in Strategies : Running(k) =>
        /\ BestPrices[k][1] = 0 => SideEmpty(k, "Bid")
        /\ BestPrices[k][2] = 0 => SideEmpty(k, "Ask")

\* the book after a single AddOrder(1, Bid, 100, 50) on an empty book
SingleBid(k) ==
    /\ DOMAIN Registry(k) = {1}
    /\ Registry(k)[1].side = "Bid"
    /\ Registry(k)[1].price = 100
    /\ Registry(k)[1].originalVolume = 50
    /\ LevelSet(k, "Bid") = {<<100, 50>>}
    /\ SideEmpty(k, "Ask")

\* C5 amended: a component of GetBestPrices is 0 only if at least one of the
\* two sides has no level; on an empty book the result is (0, 0), and after a
\* single AddOrder(1, Bid, 100, 50) on an empty book it is (0, 0) as well.
C5_ZeroOnlyIfSomeSideEmpty ==
    \A k \in Strategies : Running(k) =>
        /\ (BestPrices[k][1] = 0 \/ BestPrices[k][2] = 0)
               => (SideEmpty(k, "Bid") \/ SideEmpty(k, "Ask"))
        /\ (SideEmpty(k, "Bid") /\ SideEmpty(k, "Ask")) => BestPrices[k] = <<0, 0>>
        /\ SingleBid(k) => BestPrices[k] = <<0, 0>>

C5_Witness == \A k \in Strategies : Running(k) /\ SingleBid(k)

\* C6: GetBestPrices returns (0, 0) whenever at least one side has no level, and
\* a pair other than (0, 0) only when both sides have a level.
C6_SentinelWhenEitherSideEmpty ==
    \A k \in Strategies : Running(k) =>
        /\ (SideEmpty(k, "Bid") \/ SideEmpty(k, "Ask")) => BestPrices[k] = <<0, 0>>
        /\ BestPrices[k] /= <<0, 0>> => (~SideEmpty(k, "Bid") /\ ~SideEmpty(k, "Ask"))

\* the ask side holds two levels and the bid side none
C6_Witness ==
    \A k \in Strategies :
        /\ Running(k)
        /\ SideEmpty(k, "Bid")
        /\ Cardinality(LevelSet(k, "Ask")) = 2
        /\ BestPrices[k] = <<0, 0>>

\* C7: whenever both sides hold a level, GetBestPrices returns the highest bid
\* price and the lowest ask price, in every strategy.
C7_BestIsHighestBidLowestAsk ==
    \A k \in Strategies :
        (Running(k) /\ ~SideEmpty(k, "Bid") /\ ~SideEmpty(k, "Ask")) =>
            BestPrices[k] = <<Max(PricesOf(LevelSet(k, "Bid"))),
                              Min(PricesOf(LevelSet(k, "Ask")))>>

\* bids at 100 and 105, asks at 95: the result is (105, 95)
C7_Witness ==
    \A k \in Strategies :
        /\ Running(k)
        /\ PricesOf(LevelSet(k, "Bid")) = {100, 105}
        /\ PricesOf(LevelSet(k, "Ask")) = {95}
        /\ BestPrices[k] = <<105, 95>>

\* C8: AddOrder with an id that is already live changes nothing: the registry,
\* every level on both sides (and so the result of GetBestPrices) stay as they
\* are, whatever side, price and volume the call carries.
C8_DuplicateAddIsNoOp ==
    \A orderId \in OrderIds, side \in Sides, price \in Prices, volume \in CallVolumes :
        /\ (~obMap.crashed /\ orderId \in DOMAIN obMap.mOrders) =>
               Map_AddOrder(obMap, orderId, side, price, volume) = {obMap}
        /\ orderId \in DOMAIN obVector.mOrders =>
               Vector_AddOrder(obVector, orderId, side, price, volume) = obVector
        /\ orderId \in DOMAIN obEfficient.mOrders =>
               Efficient_AddOrder(obEfficient, orderId, side, price, volume) = obEfficient
        /\ orderId \in DOMAIN obBranchless.mOrders =>
               Branchless_AddOrder(obBranchless, orderId, side, price, volume) = obBranchless
        /\ orderId \in DOMAIN obLinear.mOrders =>
               Linear_AddOrder(obLinear, orderId, side, price, volume) = obLinear

\* order 1 is live as (Bid, 100, 50) next to other orders, and a second
\* AddOrder(1, Ask, 105, -50) leaves every book as it is
C8_Witness ==
    /\ \A k \in Strategies :
           /\ Running(k)
           /\ DOMAIN Registry(k) = {1, 2}
           /\ Registry(k)[1].side = "Bid"
           /\ Registry(k)[1].price = 100
           /\ Registry(k)[1].originalVolume = 50
    /\ Map_AddOrder(obMap, 1, "Ask", 105, -50) = {obMap}
    /\ Linear_AddOrder(obLinear, 1, "Ask", 105, -50) = obLinear

\* C9: ModifyOrder and DeleteOrder with an id that is not live leave the whole
\* book (registry and all levels of both sides) unchanged and end normally.
C9_UnknownIdIsNoOp ==
    \A orderId \in OrderIds :
        /\ (~obMap.crashed /\ orderId \notin DOMAIN obMap.mOrders) =>
               /\ Map_DeleteOrder(obMap, orderId) = {obMap}
               /\ \A newVolume \in CallVolumes :
                      Map_ModifyOrder(obMap, orderId, newVolume) = {obMap}
        /\ orderId \notin DOMAIN obVector.mOrders =>
               /\ Vector_DeleteOrder(obVector, orderId) = obVector
               /\ \A newVolume \in CallVolumes :
                      Vector_ModifyOrder(obVector, orderId, newVolume) = obVector
        /\ orderId \notin DOMAIN obEfficient.mOrders =>
               /\ Efficient_DeleteOrder(obEfficient, orderId) = obEfficient
               /\ \A newVolume \in CallVolumes :
                      Efficient_ModifyOrder(obEfficient, orderId, newVolume) = obEfficient
        /\ orderId \notin DOMAIN obBranchless.mOrders =>
               /\ Branchless_DeleteOrder(obBranchless, orderId) = obBranchless
               /\ \A newVolume \in CallVolumes :
                      Branchless_ModifyOrder(obBranchless, orderId, newVolume) = obBranchless
        /\ orderId \notin DOMAIN obLinear.mOrders =>
               /\ Linear_DeleteOrder(obLinear, orderId) = obLinear
               /\ \A newVolume \in CallVolumes :
                      Linear_ModifyOrder(obLinear, orderId, newVolume) = obLinear

\* id 2 was removed by an implicit cancel that left order 1 without its level,
\* id 3 was never added; calls on 2 and 3 change nothing
C9_Witness ==
    /\ \A k \in Strategies :
           /\ Running(k)
           /\ DOMAIN Registry(k) = {1}
           /\ SideEmpty(k, "Bid")
           /\ SideEmpty(k, "Ask")
    /\ Map_ModifyOrder(obMap, 2, 50) = {obMap}
    /\ Vector_DeleteOrder(obVector, 3) = obVector

\* C10: for every live id, ModifyOrder(id, v) with v <= 0 gives the same book as
\* DeleteOrder(id), in every strategy.
C10_NonPositiveModifyIsDelete ==
    \A orderId \in OrderIds, v \in {x \in CallVolumes : x <= 0} :
        /\ (~obMap.crashed /\ orderId \in DOMAIN obMap.mOrders) =>
               Map_ModifyOrder(obMap, orderId, v) = Map_DeleteOrder(obMap, orderId)
        /\ orderId \in DOMAIN obVector.mOrders =>
               Vector_ModifyOrder(obVector, orderId, v) = Vector_DeleteOrder(obVector, orderId)
        /\ orderId \in DOMAIN obEfficient.mOrders =>
               Efficient_ModifyOrder(obEfficient, orderId, v)
                   = Efficient_DeleteOrder(obEfficient, orderId)
        /\ orderId \in DOMAIN obBranchless.mOrders =>
               Branchless_ModifyOrder(obBranchless, orderId, v)
                   = Branchless_DeleteOrder(obBranchless, orderId)
        /\ orderId \in DOMAIN obLinear.mOrders =>
               Linear_ModifyOrder(obLinear, orderId, v) = Linear_DeleteOrder(obLinear, orderId)

(* ------------------- a book before and after one call ------------------ *)
\* what a caller can observe of a book: the registry records and the levels
OrderView(details) == <<details.side, details.price, details.originalVolume>>

VecView(ob) ==
    [reg |-> [o \in DOMAIN ob.mOrders |-> OrderView(ob.mOrders[o])],
     Bid |-> VecLevelSet(ob, "Bid"), Ask |-> VecLevelSet(ob, "Ask")]

MapView(st) ==
    [reg |-> [o \in DOMAIN st.mOrders |-> OrderView(st.mOrders[o])],
     Bid |-> MapLevelSet(st, "Bid"), Ask |-> MapLevelSet(st, "Ask")]

\* the outcomes of OrderBookMap in which the process is still running
MapViews(outcomes) == {MapView(st) : st \in {s \in outcomes : ~s.crashed}}

Now(k) == IF k = 1 THEN MapView(obMap) ELSE VecView(VectorBooks[k - 1])

AfterAdd(k, orderId, side, price, volume) ==
    CASE k = 1 -> MapViews(Map_AddOrder(obMap, orderId, side, price, volume))
      [] k = 2 -> {VecView(Vector_AddOrder(obVector, orderId, side, price, volume))}
      [] k = 3 -> {VecView(Efficient_AddOrder(obEfficient, orderId, side, price, volume))}
      [] k = 4 -> {VecView(Branchless_AddOrder(obBranchless, orderId, side, price, volume))}
      [] k = 5 -> {VecView(Linear_AddOrder(obLinear, orderId, side, price, volume))}

AfterModify(k, orderId, newVolume) ==
    CASE k = 1 -> MapViews(Map_ModifyOrder(obMap, orderId, newVolume))
      [] k = 2 -> {VecView(Vector_ModifyOrder(obVector, orderId, newVolume))}
      [] k = 3 -> {VecView(Efficient_ModifyOrder(obEfficient, orderId, newVolume))}
      [] k = 4 -> {VecView(Branchless_ModifyOrder(obBranchless, orderId, newVolume))}
      [] k = 5 -> {VecView(Linear_ModifyOrder(obLinear, orderId, newVolume))}

AfterDelete(k, orderId) ==
    CASE k = 1 -> MapViews(Map_DeleteOrder(obMap, orderId))
      [] k = 2 -> {VecView(Vector_DeleteOrder(obVector, orderId))}
      [] k = 3 -> {VecView(Efficient_DeleteOrder(obEfficient, orderId))}
      [] k = 4 -> {VecView(Branchless_DeleteOrder(obBranchless, orderId))}
      [] k = 5 -> {VecView(Linear_DeleteOrder(obLinear, orderId))}

\* the stored volumes of the levels at (price, side): empty without a level
AggregateAt(view, side, price) == {l[2] : l \in {m \in view[side] : m[1] = price}}

\* the live ids at (price, side)
LiveAt(view, side, price) ==
    {o \in DOMAIN view.reg : view.reg[o][1] = side /\ view.reg[o][2] = price}

\* the strategies that are running and hold orderId as a live order
LiveIn(orderId) ==
    {k \in Strategies : Running(k) /\ orderId \in DOMAIN Now(k).reg}

\* C11: DeleteOrder(id) on a live id leaves id not live, lowers the aggregate
\* of the level at the order's (price, side) by the order's remaining volume
\* and removes that level exactly when the result is <= 0; deleting the only
\* live order at a price removes the level, deleting one of several leaves the
\* level in place with the remainder.  Every strategy, every reached book.
C11_DeleteLowersLevel ==
    \A orderId \in OrderIds : \A k \in LiveIn(orderId) :
        \A after \in AfterDelete(k, orderId) :
            LET rec == Now(k).reg[orderId]
                before == AggregateAt(Now(k), rec[1], rec[2])
                left == AggregateAt(after, rec[1], rec[2])
                others == LiveAt(Now(k), rec[1], rec[2]) \ {orderId}
            IN /\ orderId \notin DOMAIN after.reg
               /\ \A a \in before :
                      left = IF a - rec[3] <= 0 THEN {} ELSE {a - rec[3]}
               /\ others = {} => left = {}
               /\ others /= {} => left /= {}

\* the levels of a view away from (side, price)
LevelsElsewhere(view, side, price) ==
    [s \in Sides |-> IF s = side THEN {l \in view[s] : l[1] /= price} ELSE view[s]]

\* the strategies that are running and do not hold orderId as a live order
NotLiveIn(orderId) ==
    {k \in Strategies : Running(k) /\ orderId \notin DOMAIN Now(k).reg}

\* C12: AddOrder with an id that is not live (never added, or removed by
\* DeleteOrder or by an implicit cancel) registers it afresh: the id becomes
\* live with the call's side, price and volume, the volume is added to the
\* level at the call's (price, side) or opens that level, and every other
\* record and level stays as it is; the book keeps nothing of a removed id.
C12_ReAddIsFreshRegistration ==
    \A k \in Strategies : Running(k) =>
        LET now == Now(k)
        IN \A side \in Sides, price \in Prices :
               LET before == AggregateAt(now, side, price)
                   elsewhere == LevelsElsewhere(now, side, price)
               IN \A orderId \in OrderIds \ DOMAIN now.reg, volume \in CallVolumes :
                      \A after \in AfterAdd(k, orderId, side, price, volume) :
                          /\ after.reg = (orderId :> <<side, price, volume>>) @@ now.reg
                          /\ AggregateAt(after, side, price)
                                 = IF before = {} THEN {volume}
                                   ELSE {a + volume : a \in before}
                          /\ LevelsElsewhere(after, side, price) = elsewhere

\* three calls have left order 2 live at (Bid, 100) without its level: the
\* other order at that level, id 1 or 3, was added and then removed by the
\* implicit cancel; adding 1 and 3 again as (Ask, 105, 50) registers them
C12_Witness ==
    /\ nOps = 3
    /\ \A k \in Strategies :
           /\ Running(k)
           /\ Now(k).reg = (2 :> <<"Bid", 100, 50>>)
           /\ SideEmpty(k, "Bid")
           /\ \A orderId \in {1, 3} :
                  \A after \in AfterAdd(k, orderId, "Ask", 105, 50) :
                      /\ after.reg[orderId] = <<"Ask", 105, 50>>
                      /\ after.Ask = {<<105, 50>>}
                      /\ after.Bid = {}

\* the first position whose element is not ordered before the value, or the
\* end position
FirstNotBefore(levels, value, c) ==
    Min({i \in 1..Len(levels) : ~Comp(c, levels[i].price, value)} \cup {Len(levels) + 1})

\* C13: for every sorted sequence (the empty one and lengths that are not
\* powers of two included) and every searched value, branchless_lower_bound
\* returns the position std::lower_bound returns: the first position whose
\* element is not ordered before the value, or the end position.
C13_BranchlessIsLowerBound ==
    LET expected == FirstNotBefore(search.levels, search.value, search.c)
    IN /\ lower_bound(search.levels, search.value, search.c) = expected
       /\ branchless_lower_bound(search.levels, search.value, search.c) = expected
       /\ search.pc = "returned" => search.first = expected

\* the search of 100 in five ascending levels with a repeated price has
\* returned the third position
C13_Witness ==
    /\ search.pc = "returned"
    /\ search.c = "less"
    /\ Len(search.levels) = 5
    /\ [i \in 1..5 |-> search.levels[i].price] = <<95, 95, 100, 100, 110>>
    /\ search.value = 100
    /\ search.first = 3

\* the comparator a vector strategy sorts a side with: OrderBookVector keeps
\* the best price in front, the other three at the back
SortOrder(k, side) ==
    IF k = 2 THEN (IF side = "Bid" THEN "greater" ELSE "less")
    ELSE (IF side = "Bid" THEN "less" ELSE "greater")

StrictlySorted(levels, c) ==
    \A i, j \in 1..Len(levels) : i < j => Comp(c, levels[i].price, levels[j].price)

\* C14: in every strategy each side's levels are strictly ordered by price in
\* the strategy's direction and no price is stored twice; AddOrder at the price
\* of an existing level leaves one entry at that price, holding the sum.
C14_LevelsSortedOnePerPrice ==
    \A side \in Sides :
        /\ \A k \in 2..5 :
               StrictlySorted(VectorBooks[k - 1][LevelsField(side)], SortOrder(k, side))
        /\ \A price \in Prices :
               /\ ~obMap.crashed => MapLevelCount(obMap, side, price) <= 1
               /\ \A k \in 2..5 : VecLevelCount(VectorBooks[k - 1], side, price) <= 1
               /\ \A k \in Strategies : Running(k) =>
                      \A a \in AggregateAt(Now(k), side, price) :
                          \A orderId \in OrderIds \ DOMAIN Now(k).reg, volume \in CallVolumes :
                              \A after \in AfterAdd(k, orderId, side, price, volume) :
                                  after[side] = (Now(k)[side] \ {<<price, a>>})
                                                    \cup {<<price, a + volume>>}

\* two bid levels in every strategy, the one at 100 holding the sum of the two
\* orders added there (as AddOrder(1, Bid, 100, 50); AddOrder(2, Bid, 100, 50)
\* leaves it)
C14_Witness ==
    \A k \in Strategies :
        /\ Running(k)
        /\ PricesOf(LevelSet(k, "Bid")) = {100, 105}
        /\ LiveAt(Now(k), "Bid", 100) = {1, 2}
        /\ Now(k).reg[1][3] = 50
        /\ Now(k).reg[2][3] = 50
        /\ AggregateAt(Now(k), "Bid", 100) = {100}

\* C15: ModifyOrder(id, newVolume) on a live id changes the aggregate of the
\* level at the order's (price, side) by delta = newVolume - remaining volume;
\* with a result > 0 the order stays live with remaining volume newVolume,
\* with a result <= 0 the level and the order are removed.  Every strategy,
\* every reached book that holds a level at the order's price.
C15_ModifyAppliesDelta ==
    \A orderId \in OrderIds : \A k \in LiveIn(orderId) :
        LET rec == Now(k).reg[orderId]
        IN \A a \in AggregateAt(Now(k), rec[1], rec[2]) :
               \A newVolume \in CallVolumes :
                   \A after \in AfterModify(k, orderId, newVolume) :
                       LET result == a + (newVolume - rec[3])
                       IN IF result > 0
                          THEN /\ AggregateAt(after, rec[1], rec[2]) = {result}
                               /\ orderId \in DOMAIN after.reg
                               /\ after.reg[orderId] = <<rec[1], rec[2], newVolume>>
                          ELSE /\ AggregateAt(after, rec[1], rec[2]) = {}
                               /\ orderId \notin DOMAIN after.reg

\* C16: an id becomes live only through AddOrder on that id and stops being
\* live only through DeleteOrder on that id or through a ModifyOrder on that
\* id that brings the aggregate of its level to <= 0; a call addressed to one
\* id never changes whether another id is live.
C16_LivenessFollowsLifecycle ==
    \A k \in Strategies : Running(k) =>
        LET now == Now(k)
            live == DOMAIN now.reg
        IN \A orderId \in OrderIds :
               /\ \A side \in Sides, price \in Prices, volume \in CallVolumes :
                      \A after \in AfterAdd(k, orderId, side, price, volume) :
                          DOMAIN after.reg = live \cup {orderId}
               /\ \A after \in AfterDelete(k, orderId) :
                      /\ DOMAIN after.reg \subseteq live
                      /\ live \ DOMAIN after.reg \subseteq {orderId}
               /\ \A newVolume \in CallVolumes :
                      \A after \in AfterModify(k, orderId, newVolume) :
                          /\ DOMAIN after.reg \subseteq live
                          /\ live \ DOMAIN after.reg \subseteq {orderId}
                          /\ (orderId \in live /\ orderId \notin DOMAIN after.reg) =>
                                 \E a \in AggregateAt(now, now.reg[orderId][1],
                                                      now.reg[orderId][2]) :
                                     a + (newVolume - now.reg[orderId][3]) <= 0

Opposite(side) == IF side = "Bid" THEN "Ask" ELSE "Bid"

\* the best bid is at or above the best ask
Crossed(k) ==
    /\ ~SideEmpty(k, "Bid")
    /\ ~SideEmpty(k, "Ask")
    /\ Max(PricesOf(LevelSet(k, "Bid"))) >= Min(PricesOf(LevelSet(k, "Ask")))

\* C17: AddOrder of a new order on one side leaves every level and every order
\* of the opposite side as it is, whatever the prices (with a live id it
\* changes nothing at all), and GetBestPrices of a book whose best bid is
\* at or above its best ask returns that pair.
C17_NoCrossedBookRepair ==
    \A k \in Strategies : Running(k) =>
        LET now == Now(k)
        IN /\ Crossed(k) => BestPrices[k] = <<Max(PricesOf(now.Bid)), Min(PricesOf(now.Ask))>>
           /\ \A side \in Sides :
                  LET across == {o \in DOMAIN now.reg : now.reg[o][1] = Opposite(side)}
                  IN \A orderId \in OrderIds \ DOMAIN now.reg :
                       \A price \in Prices, volume \in CallVolumes :
                         \A after \in AfterAdd(k, orderId, side, price, volume) :
                             /\ after[Opposite(side)] = now[Opposite(side)]
                             /\ \A o \in across :
                                    o \in DOMAIN after.reg /\ after.reg[o] = now.reg[o]

\* an ask at 100 and a bid at 105 added after it: the book is crossed, both
\* orders and levels are in place and GetBestPrices returns (105, 100)
C17_Witness ==
    \A k \in Strategies :
        /\ Running(k)
        /\ Now(k).Ask = {<<100, 50>>}
        /\ Now(k).Bid = {<<105, 50>>}
        /\ Cardinality(DOMAIN Now(k).reg) = 2
        /\ Crossed(k)
        /\ BestPrices[k] = <<105, 100>>

\* C18: while every AddOrder volume and every ModifyOrder newVolume is > 0,
\* in every strategy: each level holds the sum of the live volumes at its
\* (price, side) and each live order has its level; ModifyOrder removes no
\* order and no level; a level goes only in the DeleteOrder of the last live
\* order at its price; and OrderBookMap holds no iterator to an erased level
\* and never dereferences one.
C18_PositiveVolumesKeepLevels ==
    /\ ~obMap.crashed /\ ~obMap.ub /\ obMap.dangling = {}
    /\ \A o \in DOMAIN obMap.mOrders :
           /\ CachedIt(obMap.mOrders[o]) \in obMap[LevelsField(obMap.mOrders[o].side)]
           /\ obMap.heap[CachedIt(obMap.mOrders[o])].price = obMap.mOrders[o].price
    /\ \A k \in Strategies :
           LET now == Now(k)
           IN /\ \A side \in Sides, price \in Prices :
                     AggregateAt(now, side, price)
                         = IF LiveAt(now, side, price) = {} THEN {}
                           ELSE {SumOver([o \in LiveAt(now, side, price) |-> now.reg[o][3]],
                                         LiveAt(now, side, price))}
              /\ \A orderId \in DOMAIN now.reg :
                     /\ \A newVolume \in PositiveVolumes :
                            \A after \in AfterModify(k, orderId, newVolume) :
                                /\ DOMAIN after.reg = DOMAIN now.reg
                                /\ \A side \in Sides :
                                       PricesOf(after[side]) = PricesOf(now[side])
                     /\ \A after \in AfterDelete(k, orderId) :
                            \A side \in Sides : \A price \in PricesOf(now[side]) :
                                price \notin PricesOf(after[side]) =>
                                    LiveAt(now, side, price) = {orderId}
    /\ \A orderId \in DOMAIN obMap.mOrders :
           \A st \in Map_DeleteOrder(obMap, orderId)
                       \cup UNION {Map_ModifyOrder(obMap, orderId, newVolume)
                                      : newVolume \in PositiveVolumes} :
               ~st.crashed /\ ~st.ub /\ st.dangling = {}

\* orders 1 (volume 20) and 2 (volume 50) share the level at (Bid, 100), which
\* holds 70; ModifyOrder(2, 20) leaves both live and the level at 40, and
\* DeleteOrder(1) leaves the level at 50
C18_Witness ==
    /\ nOps = 3
    /\ \A k \in Strategies :
           /\ Running(k)
           /\ Now(k).reg = (1 :> <<"Bid", 100, 20>>) @@ (2 :> <<"Bid", 100, 50>>)
           /\ Now(k).Bid = {<<100, 70>>}
           /\ \A after \in AfterModify(k, 2, 20) :
                  DOMAIN after.reg = {1, 2} /\ after.Bid = {<<100, 40>>}
           /\ \A after \in AfterDelete(k, 1) :
                  DOMAIN after.reg = {2} /\ after.Bid = {<<100, 50>>}

\* the elements of a sequence
Range(s) == {s[i] : i \in 1..Len(s)}

\* C19: after every pass of simulateMarket's loop the activeOrders list holds
\* exactly the ids live in the book, each once, in every strategy, and the
\* OrderBookMap run has neither aborted nor used an erased level: the ids
\* ModifyOrder and DeleteOrder are called with are live.
C19_ActiveOrdersAreLive ==
    /\ ~obMap.crashed /\ ~obMap.ub
    /\ Cardinality(Range(sim.activeOrders)) = Len(sim.activeOrders)
    /\ \A k \in Strategies : DOMAIN Registry(k) = Range(sim.activeOrders)
    /\ \A id \in Range(sim.activeOrders) : id < sim.next_id

\* four passes: three AddOrder calls and DeleteOrder(2), after a ModifyOrder or
\* not; the list is <<1, 3>> and ids 1 and 3 are live
C19_Witness ==
    /\ sim.activeOrders = <<1, 3>>
    /\ sim.next_id = 4
    /\ nOps = 4
    /\ \A k \in Strategies : Running(k) /\ DOMAIN Registry(k) = {1, 3}

\* the registry records of the ids other than orderId
OtherRecords(view, orderId) ==
    [o \in DOMAIN view.reg \ {orderId} |-> view.reg[o]]

\* C20: a call addressed to id X leaves the registry record of every other id
\* as it is and changes, creates or removes no level away from X's own
\* (price, side): the call's for AddOrder, the recorded one for ModifyOrder
\* and DeleteOrder; ModifyOrder keeps X's recorded side and price.
C20_CallTouchesOwnLevelOnly ==
    \A k \in Strategies : Running(k) =>
        LET now == Now(k)
        IN \A orderId \in OrderIds :
               /\ orderId \notin DOMAIN now.reg =>
                      \A side \in Sides, price \in Prices, volume \in CallVolumes :
                          \A after \in AfterAdd(k, orderId, side, price, volume) :
                              /\ OtherRecords(after, orderId) = OtherRecords(now, orderId)
                              /\ LevelsElsewhere(after, side, price)
                                     = LevelsElsewhere(now, side, price)
               /\ orderId \in DOMAIN now.reg =>
                      LET rec == now.reg[orderId]
                          elsewhere == LevelsElsewhere(now, rec[1], rec[2])
                      IN /\ \A after \in AfterDelete(k, orderId) :
                                /\ OtherRecords(after, orderId) = OtherRecords(now, orderId)
                                /\ LevelsElsewhere(after, rec[1], rec[2]) = elsewhere
                         /\ \A newVolume \in CallVolumes :
                                \A after \in AfterModify(k, orderId, newVolume) :
                                    /\ OtherRecords(after, orderId) = OtherRecords(now, orderId)
                                    /\ LevelsElsewhere(after, rec[1], rec[2]) = elsewhere
                                    /\ orderId \in DOMAIN after.reg =>
                                           /\ after.reg[orderId][1] = rec[1]
                                           /\ after.reg[orderId][2] = rec[2]

Reverse(s) == [i \in 1..Len(s) |-> s[Len(s) + 1 - i]]

\* C21: after every call of any sequence, zero and negative volumes included,
\* the four vector strategies hold the same registry (ids, sides, prices,
\* recorded volumes) and on each side the same levels: the three strategies
\* that keep the best price at the back store the same sequence, and
\* OrderBookVector stores that sequence reversed.
C21_VectorStrategiesInLockStep ==
    /\ obEfficient.mOrders = obVector.mOrders
    /\ obBranchless.mOrders = obVector.mOrders
    /\ obLinear.mOrders = obVector.mOrders
    /\ \A side \in Sides :
           /\ obBranchless[LevelsField(side)] = obEfficient[LevelsField(side)]
           /\ obLinear[LevelsField(side)] = obEfficient[LevelsField(side)]
           /\ obVector[LevelsField(side)] = Reverse(obEfficient[LevelsField(side)])
           /\ \A k \in 3..5 : VecLevelSet(VectorBooks[k - 1], side) = VecLevelSet(obVector, side)

\* two bid levels, one of them holding 0 for an order of volume 0, next to an
\* order of negative volume: OrderBookVector stores 105 before 100, the other
\* three 100 before 105
C21_Witness ==
    /\ obVector.mBidLevels = <<[price |-> 105, volume |-> 0], [price |-> 100, volume |-> -50]>>
    /\ obEfficient.mBidLevels
           = <<[price |-> 100, volume |-> -50], [price |-> 105, volume |-> 0]>>
    /\ obBranchless.mBidLevels = obEfficient.mBidLevels
    /\ obLinear.mBidLevels = obEfficient.mBidLevels
    /\ DOMAIN obVector.mOrders = {1, 2}
    /\ \A k \in 2..5 : Registry(k) = obVector.mOrders

\* the position the next pass of the loop reads, first + half
NextRead == search.first + search.length \div 2

\* C22: every call of branchless_lower_bound returns: each pass of the loop
\* lowers the remaining length, which never goes below 0; the position a pass
\* reads, first + half, is one of the positions first..last-1 of the range;
\* the remaining range never reaches past the end position; on an empty
\* range no element is read.
C22_BranchlessTerminatesInRange ==
    /\ []((search.pc = "loop" /\ search.length > 0) => NextRead \in 1..Len(search.levels))
    /\ [](search.pc /= "none" =>
              /\ search.length >= 0
              /\ search.first >= 1
              /\ search.first + search.length <= Len(search.levels) + 1)
    /\ [][search'.pc = "loop" => search'.length < search.length]_vars
    /\ <>(search.pc = "returned")

\* the last pass of a search over five levels is about to read the fifth
\* element, the last of the range
C22_Witness ==
    /\ search.pc = "loop"
    /\ Len(search.levels) = 5
    /\ search.length = 1
    /\ search.first = 5
    /\ NextRead = 5

=============================================================================
